---- MODULE Spec2Model ----
(***************************************************************************)
(* Model of the libretro plugin host in MacMAME/Core/LibretroCore.c.       *)
(*                                                                         *)
(* The host keeps its state in file-scope statics; every static that the   *)
(* lifecycle, video and audio code reads or writes is a variable here.     *)
(* The loaded module is an opaque collaborator: which entry points it      *)
(* exports, its verdict on content, the geometry it reports and the        *)
(* callbacks it makes while one of its entries executes are inputs.        *)
(*                                                                         *)
(* Pointers are integers, 0 being NULL.  A module handle and a pointer     *)
(* into a module (entry point, string) are the identifier of that module.  *)
(* malloc is taken to succeed.  Callback arguments obey the callback's     *)
(* own contract (data holds height*pitch bytes, frames*2 samples), so      *)
(* size_t products and sums stay far below 2^64.                           *)
(*                                                                         *)
(* The host is single-threaded.  A host function runs in one step up to    *)
(* its first call of a module entry, and in one step from the return of    *)
(* each module entry to the next such call or to its own return.  Between  *)
(* the call and the return of a module entry the module owns the thread    *)
(* and makes the callbacks it was handed, each callback being one step.    *)
(***************************************************************************)
EXTENDS Integers, Sequences, FiniteSets, TLC

\* ------------------------------------------------------------------ bounds
MaxCallbacks == 3      \* callbacks modules make while stored audio frames
                       \* wait for the host to reset their count
MaxWidth     == 1      \* widths a module reports are 1..MaxWidth
MaxHeight    == 2      \* heights a module reports are 1..MaxHeight
MaxPitch     == 2      \* pitches a module reports are 1..MaxPitch
MaxSample    == 1      \* audio samples a module delivers are 0..MaxSample
MaxPixel     == 2      \* bytes of a frame a module delivers are 1..MaxPixel
MaxCounter   == 2      \* the counter of the stub module is 0..MaxCounter
MaxSampleCalls == 8200 \* callbacks of one retro_run that only delivers single
                       \* samples

\* ------------------------------------------------------- program constants
NULL                == 0
MAX_AUDIO_FRAMES    == 8192
MAX_PORTS           == 4
MAX_BUTTONS         == 16
RETRO_DEVICE_JOYPAD == 1
RETRO_MEMORY_SAVE_RAM == 0

\* address returned by a successful malloc
HeapAddr == 1

\* -------------------------------------------------------------- the module
\* The 21 entry points resolved by LOAD_SYM.
Symbols ==
  { "set_environment", "set_video_refresh", "set_audio_sample",
    "set_audio_sample_batch", "set_input_poll", "set_input_state",
    "init", "deinit", "api_version", "get_system_info",
    "get_system_av_info", "set_controller_port_device", "reset", "run",
    "serialize_size", "serialize", "unserialize", "load_game",
    "unload_game", "get_memory_data", "get_memory_size" }

\* The four entry points whose absence aborts the load.
Required == { "init", "deinit", "run", "load_game" }

\* The shared objects that can be offered to load_core, by what they export:
\* a complete core, a core with the mandatory entry points only, a complete
\* core without retro_unload_game, and four cores each lacking one mandatory
\* entry point.
ModuleExports ==
  << Symbols,
     Required,
     Symbols \ {"unload_game"},
     Symbols \ {"init"},
     Symbols \ {"deinit"},
     Symbols \ {"run"},
     Symbols \ {"load_game"} >>

Modules == 1 .. Len(ModuleExports)

\* Paths handed to load_core: one per shared object, and 0 for a path that
\* dlopen cannot open.
Paths == 0 .. Len(ModuleExports)

\* retro_system_info as the module fills it in: the string fields point into
\* the module, need_fullpath differs between modules.
ModuleSystemInfo(m) ==
  [ library_name     |-> m,
    library_version  |-> m,
    valid_extensions |-> m,
    need_fullpath    |-> (m % 2 = 0) ]

\* The text behind a string pointer into module m; the empty string is << >>.
LibraryName(m) == <<"name", m>>
LibraryVersion(m) == <<"version", m>>
ValidExtensions(m) == <<"extensions", m>>

\* Sizes a module's retro_serialize_size may report.
SerializeSizes == {0, 4}

\* Frame counts a module passes to the batch audio callback.
BatchSizes == {0, 100, 8142, 8200}

\* ------------------------------------------------------------------- state
VARIABLES
  core_handle,        \* static void *core_handle
  game_loaded,        \* static bool game_loaded
  core_sym,           \* the core_* function pointers, by symbol
  system_info,        \* static struct retro_system_info system_info
  video_width,        \* static unsigned video_width
  video_height,       \* static unsigned video_height
  video_pitch,        \* static size_t video_pitch
  framebuffer,        \* static void *framebuffer
  framebuffer_size,   \* static size_t framebuffer_size
  framebuffer_data,   \* the bytes framebuffer[0 .. framebuffer_size), as runs
                      \* <<byte, length>> of equal bytes
  audio_buffer,       \* static int16_t *audio_buffer
  audio_frames,       \* static size_t audio_frames
  input_state,        \* static bool input_state[MAX_PORTS][MAX_BUTTONS]
  audio_data,         \* the frames in audio_buffer[0 .. 2*audio_frames), as
                      \* runs <<frame, length>> of equal stereo frames
  files,              \* the save files, by path
  mod_state,          \* the counter inside the stub module
  snapshot,           \* by path, the counter when save_state_to_file last
                      \* returned true for the path
  pc,                 \* "host": no module entry is executing; else the
                      \* entry point that the host call in progress invoked
                      \* and that has not returned
  cb_count,           \* callbacks made since the latest host call that
                      \* began with, or left, no audio frame stored
  cb_limit,           \* callbacks made at most before the count of stored
                      \* audio frames is reset
  calls,              \* module entries invoked by the latest host call
  op,                 \* the latest host call
  arg,                \* its path argument (load_core), else 0
  ret,                \* its boolean result, FALSE until it is known
  ret_size,           \* its size_t, unsigned or pointer result, or that of
                      \* the host function it called last
  sram,               \* the local sram of libretro_save_sram and
                      \* libretro_load_sram
  mod_ret,            \* what the module's load_game, serialize or unserialize
                      \* entry returned to it, FALSE when none was invoked
  pre,                \* handle and game flag when it was called, and
                      \* whether audio frames were stored
  args,               \* port, button or id, pressed and device of the latest
                      \* input call or input query
  accepted,           \* a load_game returned true since the latest load_core
                      \* that returned true
  live,               \* the modules whose retro_init was called and whose
                      \* retro_deinit was not called since
  cycle_frames,       \* frames the audio callbacks accepted since the latest
                      \* host call
  last_cb             \* the latest callback since the latest host call

hostVars == << core_handle, game_loaded, core_sym, system_info, video_width,
               video_height, video_pitch, framebuffer, framebuffer_size,
               framebuffer_data, audio_buffer, audio_frames, audio_data,
               input_state >>
callVars == << calls, op, arg, ret, ret_size, mod_ret, sram, pre, accepted,
              live >>
envVars == << files, mod_state, snapshot >>
vars == << hostVars, envVars, pc, cb_count, cb_limit, callVars, args, last_cb,
          cycle_frames >>

\* The statics and the result of a host call, as one record, so that a host
\* function is an operator from record to record and a nested call is an
\* application.  The field at is "host" in the record a function is called
\* on and in the record it returns; when the function has called a module
\* entry, at is that entry, and applied to the record in which at is the
\* entry that returned the function carries on behind that call.  Cur is
\* the record on which a host call is made.
Cur ==
  [ core_handle      |-> core_handle,
    game_loaded      |-> game_loaded,
    core_sym         |-> core_sym,
    system_info      |-> system_info,
    video_width      |-> video_width,
    video_height     |-> video_height,
    video_pitch      |-> video_pitch,
    framebuffer      |-> framebuffer,
    framebuffer_size |-> framebuffer_size,
    framebuffer_data |-> framebuffer_data,
    audio_buffer     |-> audio_buffer,
    audio_frames     |-> audio_frames,
    audio_data       |-> audio_data,
    input_state      |-> input_state,
    files            |-> files,
    calls            |-> << >>,
    ret              |-> FALSE,
    ret_size         |-> 0,
    mod_ret          |-> FALSE,
    sram             |-> NULL,
    at               |-> "host" ]

\* The record of the host call in progress when the entry pc returns.
InCall ==
  [Cur EXCEPT !.calls = calls, !.ret = ret, !.ret_size = ret_size,
              !.mod_ret = mod_ret, !.sram = sram, !.at = pc]

\* Paths of save files; a file that fopen cannot open for reading, and a
\* file of len bytes that hold the serialized counter data.
SavePaths == {1, 2}
NoFile == [exists |-> FALSE, len |-> 0, data |-> 0]
File(len, data) == [exists |-> TRUE, len |-> len, data |-> data]
NoFiles == [path \in SavePaths |-> NoFile]

\* No counter recorded for a path, and the counter state recorded.
NoSnapshot == [saved |-> FALSE, state |-> 0]
Snapshot(state) == [saved |-> TRUE, state |-> state]

\* input_state with every cell zero
NoInput == [port \in 0 .. MAX_PORTS - 1 |->
             [button \in 0 .. MAX_BUTTONS - 1 |-> FALSE]]

\* The arguments recorded when the latest call was not an input call.
NoArgs == [port |-> 0, button |-> 0, pressed |-> FALSE, device |-> 0]

\* memset(&system_info, 0, sizeof(system_info))
ZeroSystemInfo ==
  [ library_name     |-> NULL,
    library_version  |-> NULL,
    valid_extensions |-> NULL,
    need_fullpath    |-> FALSE ]

\* An invocation of entry point s through its function pointer: the symbol,
\* the module the pointer leads into, and up to two arguments.
Invoke(h, s, a, b) ==
  [h EXCEPT !.calls = Append(@, <<s, h.core_sym[s], a, b>>), !.at = s]

\* The entry that h.at names has returned to the host function.
Returned(h) == [h EXCEPT !.at = "host"]

\* The statements rest follow the nested call that gave h: at once when it
\* has returned, and not yet when it is inside a module entry.
Then(h, rest(_)) == IF h.at = "host" THEN rest(h) ELSE h

\* dlclose(core_handle), recorded with the module entries.
Close(h) == [h EXCEPT !.calls = Append(@, <<"dlclose", h.core_handle, 0, 0>>)]

\* ---------------------------------------------------------- buffer contents
\* A buffer region is a sequence of runs <<value, length>>, each length
\* positive and neighbouring runs of different value.
RECURSIVE RunsLen(_)
RunsLen(r) == IF r = << >> THEN 0 ELSE r[1][2] + RunsLen(Tail(r))

\* The region r followed by n more elements of value v.
AppendRun(r, v, n) ==
  IF n = 0 THEN r
  ELSE IF r # << >> /\ r[Len(r)][1] = v
       THEN [r EXCEPT ![Len(r)] = <<v, @[2] + n>>]
       ELSE Append(r, <<v, n>>)

\* The region r followed by the region t.
RECURSIVE ConcatRuns(_, _)
ConcatRuns(r, t) ==
  IF t = << >> THEN r ELSE ConcatRuns(AppendRun(r, t[1][1], t[1][2]), Tail(t))

\* The first k elements of the region r (all of r when it is shorter).
RECURSIVE TakeRuns(_, _)
TakeRuns(r, k) ==
  IF k <= 0 \/ r = << >> THEN << >>
  ELSE IF r[1][2] >= k THEN << <<r[1][1], k>> >>
       ELSE ConcatRuns(<< r[1] >>, TakeRuns(Tail(r), k - r[1][2]))

\* The region r without its first k elements.
RECURSIVE DropRuns(_, _)
DropRuns(r, k) ==
  IF k <= 0 \/ r = << >> THEN r
  ELSE IF r[1][2] > k THEN << <<r[1][1], r[1][2] - k>> >> \o Tail(r)
       ELSE DropRuns(Tail(r), k - r[1][2])

\* memcpy of n elements of value v to position offset of the region r.
StoreRun(r, offset, v, n) ==
  IF n = 0 THEN r
  ELSE ConcatRuns(AppendRun(TakeRuns(r, offset), v, n), DropRuns(r, offset + n))

\* A stereo frame that was never written: malloc does not initialise.
Indeterminate == <<32768, 32768>>

\* The first count frames of a buffer that malloc just returned.
FreshFrames(count) ==
  IF count > 0 THEN << <<Indeterminate, count>> >> ELSE << >>

\* A byte that was never written, and the size bytes of a block that malloc
\* just returned.
IndeterminateByte == 256
FreshBytes(size) ==
  IF size > 0 THEN << <<IndeterminateByte, size>> >> ELSE << >>

\* ------------------------------------------------------------ core loading
\* dlopen(path, RTLD_LAZY): the handle of the shared object, NULL when the
\* path cannot be opened.
dlopen(path) == IF path \in Modules THEN path ELSE NULL

\* dlsym(handle, "retro_" s): a pointer into the module, NULL when the
\* module does not export s.
dlsym(handle, s) == IF s \in ModuleExports[handle] THEN handle ELSE NULL

\* The check with retro_init forgotten.
RequiredBound_without_init(sym) ==
  /\ sym["deinit"] # NULL
  /\ sym["run"] # NULL
  /\ sym["load_game"] # NULL

\* !core_init || !core_deinit || !core_run || !core_load_game is false
RequiredBound(sym) ==
  /\ sym["init"] # NULL
  /\ sym["deinit"] # NULL
  /\ sym["run"] # NULL
  /\ sym["load_game"] # NULL

\* if (core_X) core_X(...)
InvokeIfBound(h, s, a, b) ==
  IF h.core_sym[s] # NULL THEN Invoke(h, s, a, b) ELSE h

\* libretro_unload_game
unload_game(h) ==
  CASE h.at = "host" ->
         IF /\ h.core_handle # NULL
            /\ h.core_sym["unload_game"] # NULL
            /\ h.game_loaded
         THEN Invoke(h, "unload_game", 0, 0)
         ELSE h
    [] h.at = "unload_game" ->
         [Returned(h) EXCEPT !.game_loaded = FALSE]

\* The teardown with retro_deinit attempted without a handle.
unload_core_without_handle_check(h) ==
  LET release(x) == [x EXCEPT !.framebuffer = NULL,
                              !.framebuffer_size = 0,
                              !.framebuffer_data = << >>,
                              !.audio_buffer = NULL,
                              !.audio_data = << >>,
                              !.system_info = ZeroSystemInfo]
      close(x) == IF x.core_handle # NULL
                  THEN release([Close(x) EXCEPT !.core_handle = NULL])
                  ELSE release(x)
      teardown(x) == Then(InvokeIfBound(x, "deinit", 0, 0), close)
  IN CASE h.at = "host" ->
            IF h.game_loaded THEN Then(unload_game(h), teardown)
            ELSE teardown(h)
       [] h.at = "unload_game" -> Then(unload_game(h), teardown)
       [] h.at = "deinit" -> close(Returned(h))

\* The teardown with the handle closed before retro_deinit.
unload_core_close_first(h) ==
  LET release(x) == [x EXCEPT !.framebuffer = NULL,
                              !.framebuffer_size = 0,
                              !.framebuffer_data = << >>,
                              !.audio_buffer = NULL,
                              !.audio_data = << >>,
                              !.system_info = ZeroSystemInfo]
      forget(x) == release([x EXCEPT !.core_handle = NULL])
      teardown(x) == IF x.core_handle # NULL
                     THEN Then(InvokeIfBound(Close(x), "deinit", 0, 0), forget)
                     ELSE release(x)
  IN CASE h.at = "host" ->
            IF h.game_loaded THEN Then(unload_game(h), teardown)
            ELSE teardown(h)
       [] h.at = "unload_game" -> Then(unload_game(h), teardown)
       [] h.at = "deinit" -> forget(Returned(h))

\* The teardown that closes the handle without retro_deinit.
unload_core_without_deinit(h) ==
  LET release(x) == [x EXCEPT !.framebuffer = NULL,
                              !.framebuffer_size = 0,
                              !.framebuffer_data = << >>,
                              !.audio_buffer = NULL,
                              !.audio_data = << >>,
                              !.system_info = ZeroSystemInfo]
      close(x) == release([Close(x) EXCEPT !.core_handle = NULL])
      teardown(x) == IF x.core_handle # NULL THEN close(x) ELSE release(x)
  IN CASE h.at = "host" ->
            IF h.game_loaded THEN Then(unload_game(h), teardown)
            ELSE teardown(h)
       [] h.at = "unload_game" -> Then(unload_game(h), teardown)
       [] h.at = "deinit" -> close(Returned(h))

\* libretro_unload_core.  release: the frees and the memset at its end;
\* close: dlclose and what follows; teardown: the test of the handle and
\* what follows.
unload_core(h) ==
  LET release(x) == [x EXCEPT !.framebuffer = NULL,
                              !.framebuffer_size = 0,
                              !.framebuffer_data = << >>,
                              !.audio_buffer = NULL,
                              !.audio_data = << >>,
                              !.system_info = ZeroSystemInfo]
      close(x) == release([Close(x) EXCEPT !.core_handle = NULL])
      teardown(x) == IF x.core_handle # NULL
                     THEN Then(InvokeIfBound(x, "deinit", 0, 0), close)
                     ELSE release(x)
  IN CASE h.at = "host" ->
            IF h.game_loaded THEN Then(unload_game(h), teardown)
            ELSE teardown(h)
       [] h.at = "unload_game" -> Then(unload_game(h), teardown)
       [] h.at = "deinit" -> close(Returned(h))

\* The entries libretro_unload_core can be inside of.
UnloadSites == {"unload_game", "deinit"}

\* The setup with the environment callback registered after retro_init.
InitializeCore_environment_late(h) ==
  LET state(x) == InvokeIfBound(x, "set_input_state", 0, 0)
      poll(x) == Then(InvokeIfBound(x, "set_input_poll", 0, 0), state)
      batch(x) == Then(InvokeIfBound(x, "set_audio_sample_batch", 0, 0), poll)
      sample(x) == Then(InvokeIfBound(x, "set_audio_sample", 0, 0), batch)
      video(x) == Then(InvokeIfBound(x, "set_video_refresh", 0, 0), sample)
      environment(x) == Then(InvokeIfBound(x, "set_environment", 0, 0), video)
  IN CASE h.at = "host" -> Invoke(h, "init", 0, 0)
       [] h.at = "init" -> environment(Returned(h))
       [] h.at = "set_environment" -> video(Returned(h))
       [] h.at = "set_video_refresh" -> sample(Returned(h))
       [] h.at = "set_audio_sample" -> batch(Returned(h))
       [] h.at = "set_audio_sample_batch" -> poll(Returned(h))
       [] h.at = "set_input_poll" -> state(Returned(h))
       [] h.at = "set_input_state" -> Returned(h)

\* The part of libretro_load_core after the required entry points were
\* found: environment callback, retro_init, the five remaining callbacks.
\* Each local operator is the code from one `if (core_X) core_X(...)` on.
InitializeCore(h) ==
  LET state(x) == InvokeIfBound(x, "set_input_state", 0, 0)
      poll(x) == Then(InvokeIfBound(x, "set_input_poll", 0, 0), state)
      batch(x) == Then(InvokeIfBound(x, "set_audio_sample_batch", 0, 0), poll)
      sample(x) == Then(InvokeIfBound(x, "set_audio_sample", 0, 0), batch)
      video(x) == Then(InvokeIfBound(x, "set_video_refresh", 0, 0), sample)
      start(x) == Invoke(x, "init", 0, 0)
  IN CASE h.at = "host" ->
            Then(InvokeIfBound(h, "set_environment", 0, 0), start)
       [] h.at = "set_environment" -> start(Returned(h))
       [] h.at = "init" -> video(Returned(h))
       [] h.at = "set_video_refresh" -> sample(Returned(h))
       [] h.at = "set_audio_sample" -> batch(Returned(h))
       [] h.at = "set_audio_sample_batch" -> poll(Returned(h))
       [] h.at = "set_input_poll" -> state(Returned(h))
       [] h.at = "set_input_state" -> Returned(h)

\* The entries InitializeCore can be inside of.
InitializeSites ==
  { "set_environment", "init", "set_video_refresh", "set_audio_sample",
    "set_audio_sample_batch", "set_input_poll", "set_input_state" }

\* The caching with the module's answer discarded.
CacheSystemInfo_discarded(h) ==
  CASE h.at = "host" -> InvokeIfBound(h, "get_system_info", 0, 0)
    [] h.at = "get_system_info" -> Returned(h)

\* if (core_get_system_info) core_get_system_info(&system_info)
CacheSystemInfo(h) ==
  CASE h.at = "host" -> InvokeIfBound(h, "get_system_info", 0, 0)
    [] h.at = "get_system_info" ->
         [Returned(h) EXCEPT !.system_info =
                               ModuleSystemInfo(h.core_sym["get_system_info"])]

\* libretro_load_core.  open: the code from dlopen on; cache: from the
\* system info on; finish: the malloc of the audio buffer and the return.
load_core(h, path) ==
  LET finish(x) == [x EXCEPT !.audio_buffer = HeapAddr,
                             !.audio_data = FreshFrames(x.audio_frames),
                             !.ret = TRUE]
      cache(x) == Then(CacheSystemInfo(x), finish)
      open(x) ==
        LET handle == dlopen(path)
            bound == [x EXCEPT !.core_handle = handle,
                               !.core_sym = [s \in Symbols |-> dlsym(handle, s)]]
        IN IF handle = NULL
           THEN [x EXCEPT !.core_handle = NULL, !.ret = FALSE]
           ELSE IF ~RequiredBound(bound.core_sym)
                THEN [Close(bound) EXCEPT !.core_handle = NULL, !.ret = FALSE]
                ELSE Then(InitializeCore(bound), cache)
  IN CASE h.at = "host" ->
            IF h.core_handle # NULL THEN Then(unload_core(h), open)
            ELSE open(h)
       [] h.at \in UnloadSites -> Then(unload_core(h), open)
       [] h.at \in InitializeSites -> Then(InitializeCore(h), cache)
       [] h.at = "get_system_info" -> Then(CacheSystemInfo(h), finish)

\* libretro_is_loaded
libretro_is_loaded == core_handle # NULL

\* libretro_get_name, libretro_get_version, libretro_get_extensions
libretro_get_name ==
  IF system_info.library_name # NULL
  THEN LibraryName(system_info.library_name) ELSE << >>
libretro_get_version ==
  IF system_info.library_version # NULL
  THEN LibraryVersion(system_info.library_version) ELSE << >>
libretro_get_extensions ==
  IF system_info.valid_extensions # NULL
  THEN ValidExtensions(system_info.valid_extensions) ELSE << >>

\* --------------------------------------------------------- game management
\* The assignment with port 1 left out.
SetUpControllers_port0_only(h) ==
  CASE h.at = "host" ->
         InvokeIfBound(h, "set_controller_port_device", 0, RETRO_DEVICE_JOYPAD)
    [] h.at = "set_controller_port_device" -> Returned(h)

\* The joypad assignment at the end of a successful libretro_load_game; the
\* call that returned is the one for port 0 or the one for port 1.
SetUpControllers(h) ==
  CASE h.at = "host" ->
         InvokeIfBound(h, "set_controller_port_device", 0, RETRO_DEVICE_JOYPAD)
    [] h.at = "set_controller_port_device" ->
         IF h.calls[Len(h.calls)][3] = 0
         THEN Invoke(Returned(h), "set_controller_port_device", 1,
                     RETRO_DEVICE_JOYPAD)
         ELSE Returned(h)

\* The geometry refresh of a successful libretro_load_game; the module
\* reports base_width and base_height.
RefreshAvInfo(h, base_width, base_height) ==
  CASE h.at = "host" -> InvokeIfBound(h, "get_system_av_info", 0, 0)
    [] h.at = "get_system_av_info" ->
         [Returned(h) EXCEPT !.video_width = base_width,
                             !.video_height = base_height]

\* libretro_load_game.  file_ok: the content file can be opened, so that the
\* module is handed the content bytes (argument 1) or the path only (0);
\* result: the module's verdict; base_width, base_height: the geometry it
\* reports.  ret holds the local result from the return of core_load_game().
load_game(h, file_ok, result, base_width, base_height) ==
  CASE h.at = "host" ->
            IF h.core_handle = NULL \/ h.core_sym["load_game"] = NULL
            THEN [h EXCEPT !.ret = FALSE]
            ELSE LET embed == IF ~h.system_info.need_fullpath /\ file_ok
                              THEN 1 ELSE 0
                 IN Invoke(h, "load_game", embed, 0)
       [] h.at = "load_game" ->
            IF result
            THEN Then(RefreshAvInfo([Returned(h) EXCEPT !.game_loaded = TRUE,
                                                        !.ret = TRUE,
                                                        !.mod_ret = TRUE],
                                    base_width, base_height),
                      SetUpControllers)
            ELSE [Returned(h) EXCEPT !.ret = FALSE, !.mod_ret = FALSE]
       [] h.at = "get_system_av_info" ->
            Then(RefreshAvInfo(h, base_width, base_height), SetUpControllers)
       [] h.at = "set_controller_port_device" -> SetUpControllers(h)

\* libretro_is_game_loaded
libretro_is_game_loaded == game_loaded

\* ------------------------------------------------------- emulation control
\* libretro_run_frame without the test of the game flag.
run_frame_without_game_check(h) ==
  CASE h.at = "host" ->
         IF h.core_handle # NULL /\ h.core_sym["run"] # NULL
         THEN Invoke([h EXCEPT !.audio_frames = 0, !.audio_data = << >>],
                     "run", 0, 0)
         ELSE h
    [] h.at = "run" -> Returned(h)

\* libretro_run_frame without the reset of the audio count.
run_frame_without_reset(h) ==
  CASE h.at = "host" ->
         IF h.core_handle # NULL /\ h.core_sym["run"] # NULL /\ h.game_loaded
         THEN Invoke(h, "run", 0, 0)
         ELSE h
    [] h.at = "run" -> Returned(h)

\* libretro_run_frame
run_frame(h) ==
  CASE h.at = "host" ->
         IF h.core_handle # NULL /\ h.core_sym["run"] # NULL /\ h.game_loaded
         THEN Invoke([h EXCEPT !.audio_frames = 0, !.audio_data = << >>],
                     "run", 0, 0)
         ELSE h
    [] h.at = "run" -> Returned(h)

\* libretro_reset
reset(h) ==
  CASE h.at = "host" ->
         IF h.core_handle # NULL /\ h.core_sym["reset"] # NULL /\ h.game_loaded
         THEN Invoke(h, "reset", 0, 0)
         ELSE h
    [] h.at = "reset" -> Returned(h)

\* libretro_get_audio_buffer and libretro_get_audio_frames
libretro_get_audio_buffer == audio_buffer
libretro_get_audio_frames == audio_frames

\* libretro_clear_audio_buffer
clear_audio_buffer(h) == [h EXCEPT !.audio_frames = 0, !.audio_data = << >>]

\* ------------------------------------------------------------- save states
\* libretro_get_save_state_size; size: what the module reports.
get_save_state_size(h, size) ==
  CASE h.at = "host" ->
         IF h.core_handle # NULL /\ h.core_sym["serialize_size"] # NULL
         THEN Invoke(h, "serialize_size", 0, 0)
         ELSE [h EXCEPT !.ret_size = 0]
    [] h.at = "serialize_size" -> [Returned(h) EXCEPT !.ret_size = size]

\* libretro_save_state; size: the buffer length; result: the module's answer.
save_state(h, size, result) ==
  CASE h.at = "host" ->
         IF /\ h.core_handle # NULL
            /\ h.core_sym["serialize"] # NULL
            /\ h.game_loaded
         THEN Invoke(h, "serialize", size, 0)
         ELSE [h EXCEPT !.ret = FALSE]
    [] h.at = "serialize" ->
         [Returned(h) EXCEPT !.ret = result, !.mod_ret = result]

\* libretro_load_state
load_state(h, size, result) ==
  CASE h.at = "host" ->
         IF /\ h.core_handle # NULL
            /\ h.core_sym["unserialize"] # NULL
            /\ h.game_loaded
         THEN Invoke(h, "unserialize", size, 0)
         ELSE [h EXCEPT !.ret = FALSE]
    [] h.at = "unserialize" ->
         [Returned(h) EXCEPT !.ret = result, !.mod_ret = result]

\* The file written from the buffer as malloc returned it.
save_state_to_file_unserialized(h, path, size, result, image) ==
  LET write(x) ==
        IF x.ret
        THEN [x EXCEPT !.files[path] = File(x.ret_size, IndeterminateByte)]
        ELSE x
      serialize(x) ==
        IF x.ret_size = 0 THEN [x EXCEPT !.ret = FALSE]
        ELSE Then(save_state(x, x.ret_size, result), write)
  IN CASE h.at = "host" ->
            IF h.core_handle = NULL \/ ~h.game_loaded
            THEN [h EXCEPT !.ret = FALSE]
            ELSE Then(get_save_state_size(h, size), serialize)
       [] h.at = "serialize_size" ->
            Then(get_save_state_size(h, size), serialize)
       [] h.at = "serialize" ->
            Then(save_state(h, h.ret_size, result), write)

\* libretro_save_state_to_file; size and result: what the module's
\* serialize_size and serialize entries return; image: what serialize puts
\* into the buffer. malloc, fopen and fwrite succeed.  ret_size holds the
\* local size; serialize: the code from the test of size on; write: the
\* code from the return of libretro_save_state on.
save_state_to_file(h, path, size, result, image) ==
  LET write(x) ==
        IF x.ret THEN [x EXCEPT !.files[path] = File(x.ret_size, image)]
        ELSE x
      serialize(x) ==
        IF x.ret_size = 0 THEN [x EXCEPT !.ret = FALSE]
        ELSE Then(save_state(x, x.ret_size, result), write)
  IN CASE h.at = "host" ->
            IF h.core_handle = NULL \/ ~h.game_loaded
            THEN [h EXCEPT !.ret = FALSE]
            ELSE Then(get_save_state_size(h, size), serialize)
       [] h.at = "serialize_size" ->
            Then(get_save_state_size(h, size), serialize)
       [] h.at = "serialize" ->
            Then(save_state(h, h.ret_size, result), write)

\* libretro_load_state_from_file; result: what the module's unserialize
\* entry returns for a buffer of the length of the file. malloc and fread
\* succeed.
load_state_from_file(h, path, result) ==
  CASE h.at = "host" ->
         IF h.core_handle = NULL \/ ~h.game_loaded THEN [h EXCEPT !.ret = FALSE]
         ELSE IF ~h.files[path].exists THEN [h EXCEPT !.ret = FALSE]
         ELSE load_state(h, h.files[path].len, result)
    [] h.at = "unserialize" -> load_state(h, h.files[path].len, result)

\* -------------------------------------------------------------------- SRAM
\* The accessor without the test of the handle.
get_sram_size_without_handle_check(h, size) ==
  CASE h.at = "host" ->
         IF h.core_sym["get_memory_size"] # NULL
         THEN Invoke(h, "get_memory_size", RETRO_MEMORY_SAVE_RAM, 0)
         ELSE [h EXCEPT !.ret_size = 0]
    [] h.at = "get_memory_size" -> [Returned(h) EXCEPT !.ret_size = size]

\* libretro_get_sram_size; size: what the module reports.
get_sram_size(h, size) ==
  CASE h.at = "host" ->
         IF h.core_handle # NULL /\ h.core_sym["get_memory_size"] # NULL
         THEN Invoke(h, "get_memory_size", RETRO_MEMORY_SAVE_RAM, 0)
         ELSE [h EXCEPT !.ret_size = 0]
    [] h.at = "get_memory_size" -> [Returned(h) EXCEPT !.ret_size = size]

\* libretro_get_sram; address: the address the module reports.
get_sram(h, address) ==
  CASE h.at = "host" ->
         IF h.core_handle # NULL /\ h.core_sym["get_memory_data"] # NULL
         THEN Invoke(h, "get_memory_data", RETRO_MEMORY_SAVE_RAM, 0)
         ELSE [h EXCEPT !.ret_size = NULL]
    [] h.at = "get_memory_data" -> [Returned(h) EXCEPT !.ret_size = address]

\* libretro_save_sram with a non-null path; image: what the module's save
\* RAM holds. fopen and fwrite succeed.  measure: the code from the
\* assignment of the local sram on; write: from the test of sram and size on.
save_sram(h, path, address, size, image) ==
  LET write(x) ==
        IF x.sram # NULL /\ x.ret_size > 0
        THEN [x EXCEPT !.files[path] = File(x.ret_size, image)]
        ELSE x
      measure(x) ==
        Then(get_sram_size([x EXCEPT !.sram = x.ret_size], size), write)
  IN CASE h.at = "host" -> Then(get_sram(h, address), measure)
       [] h.at = "get_memory_data" -> Then(get_sram(h, address), measure)
       [] h.at = "get_memory_size" -> Then(get_sram_size(h, size), write)

\* libretro_load_sram with a non-null path; the bytes read go into the
\* module's save RAM, which is not a static of the host.
load_sram(h, path, address, size) ==
  LET measure(x) == get_sram_size([x EXCEPT !.sram = x.ret_size], size)
  IN CASE h.at = "host" -> Then(get_sram(h, address), measure)
       [] h.at = "get_memory_data" -> Then(get_sram(h, address), measure)
       [] h.at = "get_memory_size" -> get_sram_size(h, size)

\* libretro_get_system_av_info with a non-null info; base_width: the width
\* the module reports; the result recorded is info->geometry.base_width.
get_system_av_info(h, base_width) ==
  CASE h.at = "host" ->
         IF /\ h.core_handle # NULL
            /\ h.core_sym["get_system_av_info"] # NULL
            /\ h.game_loaded
         THEN Invoke(h, "get_system_av_info", 0, 0)
         ELSE [h EXCEPT !.ret_size = IF h.video_width # 0 THEN h.video_width
                                     ELSE 320]
    [] h.at = "get_system_av_info" -> [Returned(h) EXCEPT !.ret_size = base_width]

\* ---------------------------------------------------------- the stub module
\* A module that keeps a counter, advances it in retro_run, serializes it
\* into StubSize bytes and takes it back from a buffer of that length.
StubSize == CHOOSE size \in SerializeSizes : size > 0
StubSerialize(size) == size >= StubSize
StubUnserialize(size) == size >= StubSize

\* libretro_deinit
deinit(h) ==
  CASE h.at = "host" -> IF h.core_handle # NULL THEN unload_core(h) ELSE h
    [] h.at \in UnloadSites -> unload_core(h)

\* ---------------------------------------------------------------- callbacks
\* The batch size without the clamp to the remaining room.
BatchToCopy_unclamped(frames, count) == frames

\* The frames audio_sample_batch_callback accepts of the frames offered when
\* count frames are stored.
BatchToCopy(frames, count) ==
  IF count + frames > MAX_AUDIO_FRAMES
  THEN MAX_AUDIO_FRAMES - count
  ELSE frames

\* The position with the frames stored so far ignored.
StoreOffset_at_start(count) == 0

\* The position, in frames, at which the audio callbacks store:
\* audio_buffer[audio_frames * 2]
StoreOffset(count) == count

\* The test with the bound included.
SampleAccepted_at_capacity(count, buffer) ==
  count <= MAX_AUDIO_FRAMES /\ buffer # NULL

\* audio_frames < MAX_AUDIO_FRAMES && audio_buffer
SampleAccepted(count, buffer) == count < MAX_AUDIO_FRAMES /\ buffer # NULL

\* ------------------------------------------------------------------ input
\* A 32-bit unsigned value as its 16-bit halves <<high, low>>; of a negative
\* int, the value the conversion to unsigned gives.
Unsigned(i) == << (i \div 65536) % 65536, i % 65536 >>

\* The test on the low half of id only.
InputInRange_low_half(port, id) ==
  Unsigned(port)[2] < MAX_PORTS /\ Unsigned(id)[2] < MAX_BUTTONS

\* port < MAX_PORTS && id < MAX_BUTTONS, both unsigned
InputInRange(port, id) ==
  /\ Unsigned(port)[1] = 0
  /\ Unsigned(port)[2] < MAX_PORTS
  /\ Unsigned(id)[1] = 0
  /\ Unsigned(id)[2] < MAX_BUTTONS

\* libretro_set_button; a value that passed the test is its low half
set_button(h, port, button, pressed) ==
  IF InputInRange(port, button)
  THEN [h EXCEPT !.input_state[Unsigned(port)[2]][Unsigned(button)[2]] =
                   pressed]
  ELSE h

\* libretro_set_input: libretro_set_button(port, (unsigned)button, pressed)
set_input(h, port, button, pressed) == set_button(h, port, button, pressed)

\* libretro_clear_input
clear_input(h) == [h EXCEPT !.input_state = NoInput]

\* libretro_init; pixel_format is not part of the model
init(h) == [h EXCEPT !.input_state = NoInput]

\* What input_state_callback returns
InputState(state, port, device, index, id) ==
  IF ~InputInRange(port, id) \/ device # RETRO_DEVICE_JOYPAD THEN 0
  ELSE IF state[Unsigned(port)[2]][Unsigned(id)[2]] THEN 1 ELSE 0

\* The capacity that always follows the frame.
GrownSize_to_frame(required_size, size) == required_size

\* The capacity of the framebuffer after a frame of required_size bytes.
GrownSize(required_size, size) ==
  IF required_size > size THEN required_size ELSE size

\* A module entry is executing and the module may call back.
InModule == pc # "host" /\ cb_count < cb_limit

\* The module that is executing was handed a callback by its entry s:
\* the module bound exports s, and when libretro_load_core is initializing
\* it, s is among the entries invoked.
Registered(s) ==
  /\ core_sym[s] # NULL
  /\ (op = "load_core" /\ pc \in InitializeSites \cup {"get_system_info"}) =>
       \E i \in DOMAIN calls : calls[i][1] = s

\* video_refresh_callback, reachable once retro_set_video_refresh was called;
\* data: NULL, or the byte of which the frame handed over is full.
video_refresh_callback(data, width, height, pitch) ==
  /\ InModule
  /\ Registered("set_video_refresh")
  /\ cb_count' = cb_count + 1
  /\ IF data = NULL
     THEN UNCHANGED << video_width, video_height, video_pitch, framebuffer,
                       framebuffer_size, framebuffer_data >>
     ELSE LET required_size == height * pitch
          IN /\ video_width' = width
             /\ video_height' = height
             /\ video_pitch' = pitch
             /\ framebuffer' = IF required_size > framebuffer_size
                               THEN HeapAddr ELSE framebuffer
             /\ framebuffer_size' = GrownSize(required_size, framebuffer_size)
             /\ framebuffer_data' =
                  IF framebuffer' = NULL THEN framebuffer_data
                  ELSE StoreRun(IF required_size > framebuffer_size
                                THEN FreshBytes(framebuffer_size')
                                ELSE framebuffer_data,
                                0, data, required_size)
  /\ last_cb' = [name |-> "video", frames |-> 0, ret |-> 0, data |-> data]
  /\ UNCHANGED << core_handle, game_loaded, core_sym, system_info,
                  audio_buffer, audio_frames, audio_data, input_state,
                  envVars, pc, cb_limit, callVars, args, cycle_frames >>

\* audio_sample_callback, reachable once retro_set_audio_sample was called
audio_sample_callback(left, right) ==
  /\ InModule
  /\ Registered("set_audio_sample")
  /\ cb_count' = cb_count + 1
  /\ audio_frames' = IF SampleAccepted(audio_frames, audio_buffer)
                     THEN audio_frames + 1 ELSE audio_frames
  /\ audio_data' = IF SampleAccepted(audio_frames, audio_buffer)
                   THEN StoreRun(audio_data, StoreOffset(audio_frames),
                                 <<left, right>>, 1)
                   ELSE audio_data
  /\ last_cb' = [name |-> "sample", frames |-> 1,
                 ret |-> audio_frames' - audio_frames, data |-> 0]
  /\ cycle_frames' = cycle_frames + (audio_frames' - audio_frames)
  /\ UNCHANGED << core_handle, game_loaded, core_sym, system_info,
                  video_width, video_height, video_pitch, framebuffer,
                  framebuffer_size, framebuffer_data, audio_buffer,
                  input_state, envVars, pc, cb_limit, callVars, args >>

\* audio_sample_batch_callback, reachable once retro_set_audio_sample_batch
\* was called; data: the sample of which the array handed over is full.
audio_sample_batch_callback(data, frames) ==
  /\ InModule
  /\ Registered("set_audio_sample_batch")
  /\ cb_count' = cb_count + 1
  /\ LET to_copy == IF audio_buffer = NULL THEN 0
                    ELSE BatchToCopy(frames, audio_frames)
     IN /\ audio_frames' = IF to_copy > 0 THEN audio_frames + to_copy
                           ELSE audio_frames
        /\ audio_data' = IF to_copy > 0
                         THEN StoreRun(audio_data, StoreOffset(audio_frames),
                                       <<data, data>>, to_copy)
                         ELSE audio_data
        /\ last_cb' = [name |-> "batch", frames |-> frames, ret |-> to_copy,
                       data |-> data]
        /\ cycle_frames' = cycle_frames + to_copy
  /\ UNCHANGED << core_handle, game_loaded, core_sym, system_info,
                  video_width, video_height, video_pitch, framebuffer,
                  framebuffer_size, framebuffer_data, audio_buffer,
                  input_state, envVars, pc, cb_limit, callVars, args >>

\* input_state_callback, reachable once retro_set_input_state was called
input_state_callback(port, device, index, id) ==
  /\ InModule
  /\ Registered("set_input_state")
  /\ cb_count' = cb_count + 1
  /\ last_cb' = [name |-> "input_state", frames |-> 0,
                 ret |-> InputState(input_state, port, device, index, id),
                 data |-> 0]
  /\ args' = [port |-> port, button |-> id, pressed |-> FALSE,
              device |-> device]
  /\ UNCHANGED << hostVars, envVars, pc, cb_limit, callVars, cycle_frames >>

\* ------------------------------------------------------------ host actions
\* The modules initialized and not deinitialized after the invocations cs,
\* when those of the set s were before.
RECURSIVE LiveAfter(_, _)
LiveAfter(s, cs) ==
  IF cs = << >> THEN s
  ELSE LiveAfter(IF cs[1][1] = "init" THEN s \cup {cs[1][2]}
                 ELSE IF cs[1][1] = "deinit" THEN s \ {cs[1][2]}
                 ELSE s,
                 Tail(cs))

\* The statics and the results of the call in progress become those of h.
SetStatics(h) ==
  /\ core_handle' = h.core_handle
  /\ game_loaded' = h.game_loaded
  /\ core_sym' = h.core_sym
  /\ system_info' = h.system_info
  /\ video_width' = h.video_width
  /\ video_height' = h.video_height
  /\ video_pitch' = h.video_pitch
  /\ framebuffer' = h.framebuffer
  /\ framebuffer_size' = h.framebuffer_size
  /\ framebuffer_data' = h.framebuffer_data
  /\ audio_buffer' = h.audio_buffer
  /\ audio_frames' = h.audio_frames
  /\ audio_data' = h.audio_data
  /\ input_state' = h.input_state
  /\ files' = h.files
  /\ calls' = h.calls
  /\ ret' = h.ret
  /\ ret_size' = h.ret_size
  /\ mod_ret' = h.mod_ret
  /\ sram' = h.sram
  /\ pc' = h.at

\* accepted after the host call named name has reached h.
AcceptedAfter(h, name) ==
  IF h.at = "host" /\ h.ret /\ name = "load_core" THEN FALSE
  ELSE IF h.at = "host" /\ h.ret /\ name = "load_game" THEN TRUE
  ELSE accepted

\* The host call named name, with path argument a, is made and takes the
\* statics to h: to its return, or to its first call of a module entry.
CommitState(h, name, a, input_args) ==
  /\ SetStatics(h)
  /\ op' = name
  /\ arg' = a
  /\ args' = input_args
  /\ live' = LiveAfter(live, h.calls)
  /\ accepted' = AcceptedAfter(h, name)
  /\ pre' = [core_handle |-> core_handle, game_loaded |-> game_loaded,
             unread |-> audio_frames > 0, mod_state |-> mod_state]
  /\ cycle_frames' = 0
  /\ cb_count' = IF h.audio_frames = 0 THEN 0 ELSE cb_count
  /\ last_cb' = [name |-> "none", frames |-> 0, ret |-> 0, data |-> 0]
  /\ UNCHANGED cb_limit

\* A host call that leaves the stub module's counter alone.
CommitArgs(h, name, a, input_args) ==
  /\ CommitState(h, name, a, input_args)
  /\ UNCHANGED << mod_state, snapshot >>

Commit(h, name, a) == CommitArgs(h, name, a, NoArgs)

\* The module entry that the host call in progress invoked returns, and the
\* host call takes the statics to h: to its return, or to its next call of
\* a module entry.
ResumeState(h) ==
  /\ SetStatics(h)
  /\ live' = LiveAfter(live, SubSeq(h.calls, Len(calls) + 1, Len(h.calls)))
  /\ accepted' = AcceptedAfter(h, op)
  /\ UNCHANGED << op, arg, pre, args, cb_count, cb_limit, last_cb,
                  cycle_frames >>

\* A return that leaves the stub module's counter alone.
Resume(h) ==
  /\ ResumeState(h)
  /\ UNCHANGED << mod_state, snapshot >>

libretro_set_button(port, button, pressed) ==
  /\ pc = "host"
  /\ CommitArgs(set_button(Cur, port, button, pressed), "set_button", 0,
                [port |-> port, button |-> button,
                 pressed |-> pressed, device |-> 0])

libretro_set_input(port, button, pressed) ==
  /\ pc = "host"
  /\ CommitArgs(set_input(Cur, port, button, pressed), "set_input", 0,
                [port |-> port, button |-> button,
                 pressed |-> pressed, device |-> 0])

libretro_clear_input ==
  /\ pc = "host"
  /\ Commit(clear_input(Cur), "clear_input", 0)

libretro_init ==
  /\ pc = "host"
  /\ Commit(init(Cur), "init", 0)

\* libretro_save_state_to_file(path) is called.
libretro_save_state_to_file(path) ==
  /\ pc = "host"
  /\ Commit(save_state_to_file(Cur, path, 0, FALSE, 0),
            "save_state_to_file", path)

\* The stub module's retro_serialize_size or retro_serialize returns to
\* libretro_save_state_to_file.
SaveStateToFileReturn ==
  /\ pc # "host"
  /\ op = "save_state_to_file"
  /\ LET result == pc = "serialize" /\ StubSerialize(calls[Len(calls)][3])
         h == save_state_to_file(InCall, arg, StubSize, result, mod_state)
     IN /\ ResumeState(h)
        /\ snapshot' = IF h.at = "host" /\ h.ret
                       THEN [snapshot EXCEPT ![arg] = Snapshot(mod_state)]
                       ELSE snapshot
        /\ UNCHANGED mod_state

\* libretro_load_state_from_file(path) is called.
libretro_load_state_from_file(path) ==
  /\ pc = "host"
  /\ Commit(load_state_from_file(Cur, path, FALSE),
            "load_state_from_file", path)

\* The stub module's retro_unserialize returns to
\* libretro_load_state_from_file.
LoadStateFromFileReturn ==
  /\ pc # "host"
  /\ op = "load_state_from_file"
  /\ LET h == load_state_from_file(InCall, arg,
                                   StubUnserialize(calls[Len(calls)][3]))
     IN /\ ResumeState(h)
        /\ mod_state' = IF h.mod_ret THEN files[arg].data ELSE mod_state
        /\ UNCHANGED snapshot

\* The stub module advances its counter inside retro_run.
StubTick ==
  /\ pc = "run"
  /\ mod_state' = (mod_state + 1) % (MaxCounter + 1)
  /\ UNCHANGED << hostVars, files, snapshot, pc, cb_count, cb_limit, callVars,
                  args, last_cb, cycle_frames >>

libretro_load_core(path) ==
  /\ pc = "host"
  /\ Commit(load_core(Cur, path), "load_core", path)

\* An entry of the old or of the new module returns to libretro_load_core.
LoadCoreReturn ==
  /\ pc # "host"
  /\ op = "load_core"
  /\ Resume(load_core(InCall, arg))

libretro_unload_core ==
  /\ pc = "host"
  /\ Commit(unload_core(Cur), "unload_core", 0)

\* retro_unload_game or retro_deinit returns to libretro_unload_core.
UnloadCoreReturn ==
  /\ pc # "host"
  /\ op = "unload_core"
  /\ Resume(unload_core(InCall))

libretro_load_game(file_ok) ==
  /\ pc = "host"
  /\ Commit(load_game(Cur, file_ok, FALSE, 0, 0), "load_game", 0)

\* retro_load_game, retro_get_system_av_info or
\* retro_set_controller_port_device returns to libretro_load_game; result is
\* what retro_load_game returns, base_width and base_height what
\* retro_get_system_av_info reports.
LoadGameReturn(result, base_width, base_height) ==
  /\ pc # "host"
  /\ op = "load_game"
  /\ Resume(load_game(InCall, FALSE, result, base_width, base_height))

libretro_unload_game ==
  /\ pc = "host"
  /\ Commit(unload_game(Cur), "unload_game", 0)

\* retro_unload_game returns to libretro_unload_game.
UnloadGameReturn ==
  /\ pc # "host"
  /\ op = "unload_game"
  /\ Resume(unload_game(InCall))

libretro_run_frame ==
  /\ pc = "host"
  /\ Commit(run_frame(Cur), "run_frame", 0)

\* core_run() returns to libretro_run_frame, which returns to its caller.
RunReturn ==
  /\ pc # "host"
  /\ op = "run_frame"
  /\ Resume(run_frame(InCall))

libretro_reset ==
  /\ pc = "host"
  /\ Commit(reset(Cur), "reset", 0)

\* retro_reset returns to libretro_reset.
ResetReturn ==
  /\ pc # "host"
  /\ op = "reset"
  /\ Resume(reset(InCall))

libretro_clear_audio_buffer ==
  /\ pc = "host"
  /\ Commit(clear_audio_buffer(Cur), "clear_audio_buffer", 0)

libretro_get_save_state_size ==
  /\ pc = "host"
  /\ Commit(get_save_state_size(Cur, 0), "get_save_state_size", 0)

\* retro_serialize_size returns size to libretro_get_save_state_size.
GetSaveStateSizeReturn(size) ==
  /\ pc # "host"
  /\ op = "get_save_state_size"
  /\ Resume(get_save_state_size(InCall, size))

libretro_save_state(size) ==
  /\ pc = "host"
  /\ Commit(save_state(Cur, size, FALSE), "save_state", 0)

\* retro_serialize returns result to libretro_save_state.
SaveStateReturn(result) ==
  /\ pc # "host"
  /\ op = "save_state"
  /\ Resume(save_state(InCall, 0, result))

libretro_load_state(size) ==
  /\ pc = "host"
  /\ Commit(load_state(Cur, size, FALSE), "load_state", 0)

\* retro_unserialize returns result to libretro_load_state.
LoadStateReturn(result) ==
  /\ pc # "host"
  /\ op = "load_state"
  /\ Resume(load_state(InCall, 0, result))

libretro_deinit ==
  /\ pc = "host"
  /\ Commit(deinit(Cur), "deinit", 0)

\* retro_unload_game or retro_deinit returns to libretro_deinit.
DeinitReturn ==
  /\ pc # "host"
  /\ op = "deinit"
  /\ Resume(deinit(InCall))

libretro_get_sram ==
  /\ pc = "host"
  /\ Commit(get_sram(Cur, NULL), "get_sram", 0)

\* retro_get_memory_data returns address to libretro_get_sram.
GetSramReturn(address) ==
  /\ pc # "host"
  /\ op = "get_sram"
  /\ Resume(get_sram(InCall, address))

libretro_get_sram_size ==
  /\ pc = "host"
  /\ Commit(get_sram_size(Cur, 0), "get_sram_size", 0)

\* retro_get_memory_size returns size to libretro_get_sram_size.
GetSramSizeReturn(size) ==
  /\ pc # "host"
  /\ op = "get_sram_size"
  /\ Resume(get_sram_size(InCall, size))

libretro_save_sram(path) ==
  /\ pc = "host"
  /\ Commit(save_sram(Cur, path, NULL, 0, 0), "save_sram", path)

\* retro_get_memory_data or retro_get_memory_size returns to
\* libretro_save_sram; image: what the save RAM holds.
SaveSramReturn(address, size, image) ==
  /\ pc # "host"
  /\ op = "save_sram"
  /\ Resume(save_sram(InCall, arg, address, size, image))

libretro_load_sram(path) ==
  /\ pc = "host"
  /\ Commit(load_sram(Cur, path, NULL, 0), "load_sram", path)

\* retro_get_memory_data or retro_get_memory_size returns to
\* libretro_load_sram.
LoadSramReturn(address, size) ==
  /\ pc # "host"
  /\ op = "load_sram"
  /\ Resume(load_sram(InCall, arg, address, size))

libretro_get_system_av_info ==
  /\ pc = "host"
  /\ Commit(get_system_av_info(Cur, 0), "get_system_av_info", 0)

\* retro_get_system_av_info returns to libretro_get_system_av_info.
GetSystemAvInfoReturn(base_width) ==
  /\ pc # "host"
  /\ op = "get_system_av_info"
  /\ Resume(get_system_av_info(InCall, base_width))

\* ----------------------------------------------------------- specification
Init ==
  /\ core_handle = NULL
  /\ game_loaded = FALSE
  /\ core_sym = [s \in Symbols |-> NULL]
  /\ system_info = ZeroSystemInfo
  /\ video_width = 0
  /\ video_height = 0
  /\ video_pitch = 0
  /\ framebuffer = NULL
  /\ framebuffer_size = 0
  /\ framebuffer_data = << >>
  /\ audio_buffer = NULL
  /\ audio_frames = 0
  /\ audio_data = << >>
  /\ input_state = NoInput
  /\ args = NoArgs
  /\ files = NoFiles
  /\ accepted = FALSE
  /\ live = {}
  /\ mod_state = 0
  /\ snapshot = [path \in SavePaths |-> NoSnapshot]
  /\ pc = "host"
  /\ cb_count = 0
  /\ cb_limit = MaxCallbacks
  /\ calls = << >>
  /\ op = "none"
  /\ arg = 0
  /\ ret = FALSE
  /\ ret_size = 0
  /\ mod_ret = FALSE
  /\ sram = NULL
  /\ pre = [core_handle |-> NULL, game_loaded |-> FALSE, unread |-> FALSE,
            mod_state |-> 0]
  /\ cycle_frames = 0
  /\ last_cb = [name |-> "none", frames |-> 0, ret |-> 0, data |-> 0]

Next ==
  \/ \E path \in Paths : libretro_load_core(path)
  \/ LoadCoreReturn
  \/ libretro_unload_core
  \/ UnloadCoreReturn
  \/ \E file_ok \in BOOLEAN : libretro_load_game(file_ok)
  \/ \E result \in BOOLEAN, base_width \in 1 .. MaxWidth,
        base_height \in 1 .. MaxHeight :
       LoadGameReturn(result, base_width, base_height)
  \/ libretro_unload_game
  \/ UnloadGameReturn
  \/ libretro_run_frame
  \/ \E data \in {NULL, HeapAddr}, width \in 1 .. MaxWidth,
        height \in 1 .. MaxHeight, pitch \in 1 .. MaxPitch :
       video_refresh_callback(data, width, height, pitch)
  \/ audio_sample_callback(0, 0)
  \/ RunReturn
  \/ libretro_reset
  \/ ResetReturn
  \/ libretro_clear_audio_buffer
  \/ libretro_get_save_state_size
  \/ \E size \in SerializeSizes : GetSaveStateSizeReturn(size)
  \/ \E size \in SerializeSizes : libretro_save_state(size)
  \/ \E result \in BOOLEAN : SaveStateReturn(result)
  \/ \E size \in SerializeSizes : libretro_load_state(size)
  \/ \E result \in BOOLEAN : LoadStateReturn(result)
  \/ libretro_deinit
  \/ DeinitReturn

Spec == Init /\ [][Next]_vars

\* The audio bridge under a complete core that delivers samples of
\* different values.
NextAudio ==
  \/ libretro_load_core(1)
  \/ LoadCoreReturn
  \/ libretro_unload_core
  \/ UnloadCoreReturn
  \/ libretro_load_game(TRUE)
  \/ LoadGameReturn(TRUE, 1, 1)
  \/ libretro_run_frame
  \/ \E left \in 0 .. MaxSample, right \in 0 .. MaxSample :
       audio_sample_callback(left, right)
  \/ \E data \in 0 .. MaxSample, frames \in BatchSizes :
       audio_sample_batch_callback(data, frames)
  \/ RunReturn
  \/ libretro_clear_audio_buffer

SpecAudio == Init /\ [][NextAudio]_vars

\* The statics before the first host call and at the start of a host call.
InitialStatics ==
  [ core_handle      |-> NULL,
    game_loaded      |-> FALSE,
    core_sym         |-> [s \in Symbols |-> NULL],
    system_info      |-> ZeroSystemInfo,
    video_width      |-> 0,
    video_height     |-> 0,
    video_pitch      |-> 0,
    framebuffer      |-> NULL,
    framebuffer_size |-> 0,
    framebuffer_data |-> << >>,
    audio_buffer     |-> NULL,
    audio_frames     |-> 0,
    audio_data       |-> << >>,
    input_state      |-> NoInput,
    files            |-> NoFiles,
    calls            |-> << >>,
    ret              |-> FALSE,
    ret_size         |-> 0,
    mod_ret          |-> FALSE,
    sram             |-> NULL,
    at               |-> "host" ]
NewCall(h) ==
  [h EXCEPT !.calls = << >>, !.ret = FALSE, !.ret_size = 0, !.mod_ret = FALSE,
            !.sram = NULL]

\* libretro_load_core and libretro_load_game from h to their return, with
\* a module that makes no callback.
RECURSIVE LoadCoreQuiet(_, _)
LoadCoreQuiet(h, path) ==
  LET next == load_core(h, path)
  IN IF next.at = "host" THEN next ELSE LoadCoreQuiet(next, path)
RECURSIVE LoadGameQuiet(_, _, _, _, _)
LoadGameQuiet(h, file_ok, result, base_width, base_height) ==
  LET next == load_game(h, file_ok, result, base_width, base_height)
  IN IF next.at = "host" THEN next
     ELSE LoadGameQuiet(next, file_ok, result, base_width, base_height)

\* The statics once load_core of the complete core, an accepted load_game
\* and run_frame have been called and core_run() is executing.
RunningGame ==
  run_frame(NewCall(LoadGameQuiet(NewCall(LoadCoreQuiet(InitialStatics, 1)),
                                  TRUE, TRUE, 1, 1)))

\* One retro_run of a module that delivers its audio by single samples.
InitSamples ==
  /\ core_handle = RunningGame.core_handle
  /\ game_loaded = RunningGame.game_loaded
  /\ core_sym = RunningGame.core_sym
  /\ system_info = RunningGame.system_info
  /\ video_width = RunningGame.video_width
  /\ video_height = RunningGame.video_height
  /\ video_pitch = RunningGame.video_pitch
  /\ framebuffer = RunningGame.framebuffer
  /\ framebuffer_size = RunningGame.framebuffer_size
  /\ framebuffer_data = RunningGame.framebuffer_data
  /\ audio_buffer = RunningGame.audio_buffer
  /\ audio_frames = RunningGame.audio_frames
  /\ audio_data = RunningGame.audio_data
  /\ input_state = RunningGame.input_state
  /\ args = NoArgs
  /\ files = RunningGame.files
  /\ accepted = TRUE
  /\ live = {RunningGame.core_handle}
  /\ mod_state = 0
  /\ snapshot = [path \in SavePaths |-> NoSnapshot]
  /\ pc = "run"
  /\ cb_count = 0
  /\ cb_limit = MaxSampleCalls
  /\ calls = RunningGame.calls
  /\ op = "run_frame"
  /\ arg = 0
  /\ ret = FALSE
  /\ ret_size = 0
  /\ mod_ret = FALSE
  /\ sram = NULL
  /\ pre = [core_handle |-> RunningGame.core_handle, game_loaded |-> TRUE,
            unread |-> FALSE, mod_state |-> 0]
  /\ last_cb = [name |-> "none", frames |-> 0, ret |-> 0, data |-> 0]
  /\ cycle_frames = 0

NextSamples ==
  \/ audio_sample_callback(0, 0)
  \/ RunReturn

SpecSamples == InitSamples /\ [][NextSamples]_vars

\* The video bridge under a complete core that delivers frames of different
\* sizes and contents.
NextVideo ==
  \/ libretro_load_core(1)
  \/ LoadCoreReturn
  \/ libretro_unload_core
  \/ UnloadCoreReturn
  \/ libretro_load_game(TRUE)
  \/ LoadGameReturn(TRUE, 1, 1)
  \/ libretro_unload_game
  \/ UnloadGameReturn
  \/ libretro_run_frame
  \/ \E data \in 0 .. MaxPixel, width \in 1 .. MaxWidth,
        height \in 0 .. MaxHeight, pitch \in 1 .. MaxPitch :
       video_refresh_callback(data, width, height, pitch)
  \/ RunReturn
  \/ libretro_reset
  \/ ResetReturn

SpecVideo == Init /\ [][NextVideo]_vars

\* The input matrix and the queries of a complete core, with ports, buttons
\* and devices inside and outside the matrix.
InputPorts   == {0, 3, 4, 5}
InputButtons == {0, 15, 16, 17}
InputInts    == {0, 15, 16, -1, -65521}
InputDevices == {0, RETRO_DEVICE_JOYPAD, 2}

NextInput ==
  \/ libretro_init
  \/ libretro_load_core(1)
  \/ LoadCoreReturn
  \/ libretro_load_game(TRUE)
  \/ LoadGameReturn(TRUE, 1, 1)
  \/ libretro_run_frame
  \/ \E port \in InputPorts, device \in InputDevices, id \in InputButtons :
       input_state_callback(port, device, 0, id)
  \/ RunReturn
  \/ \E port \in InputPorts, button \in InputButtons, pressed \in BOOLEAN :
       libretro_set_button(port, button, pressed)
  \/ \E port \in InputPorts, button \in InputInts, pressed \in BOOLEAN :
       libretro_set_input(port, button, pressed)
  \/ libretro_clear_input

SpecInput == Init /\ [][NextInput]_vars

\* Save files under the stub module.
NextSave ==
  \/ libretro_load_core(1)
  \/ LoadCoreReturn
  \/ libretro_load_game(TRUE)
  \/ LoadGameReturn(TRUE, 1, 1)
  \/ libretro_unload_game
  \/ UnloadGameReturn
  \/ libretro_run_frame
  \/ StubTick
  \/ RunReturn
  \/ \E path \in SavePaths : libretro_save_state_to_file(path)
  \/ SaveStateToFileReturn
  \/ \E path \in SavePaths : libretro_load_state_from_file(path)
  \/ LoadStateFromFileReturn

SpecSave == Init /\ [][NextSave]_vars

\* Another program writes the save file at path: len bytes that hold data.
ForeignLengths == {StubSize \div 2, StubSize, 2 * StubSize}
ForeignFile(path, len, data) ==
  /\ pc = "host"
  /\ files' = [files EXCEPT ![path] = File(len, data)]
  /\ snapshot' = [snapshot EXCEPT ![path] = NoSnapshot]
  /\ UNCHANGED << hostVars, mod_state, pc, cb_count, cb_limit, callVars, args,
                  last_cb, cycle_frames >>

\* Save files under the stub module, with files that were not written by
\* save_state_to_file.
NextFiles ==
  \/ NextSave
  \/ \E path \in SavePaths, len \in ForeignLengths, data \in 0 .. MaxCounter :
       ForeignFile(path, len, data)

SpecFiles == Init /\ [][NextFiles]_vars

\* Every host function that can reach an entry point of the module, under
\* every module, with retro_run making no callbacks.
NextCalls ==
  \/ \E path \in Paths : libretro_load_core(path)
  \/ LoadCoreReturn
  \/ libretro_unload_core
  \/ UnloadCoreReturn
  \/ libretro_deinit
  \/ DeinitReturn
  \/ \E file_ok \in BOOLEAN : libretro_load_game(file_ok)
  \/ \E result \in BOOLEAN : LoadGameReturn(result, 1, 1)
  \/ libretro_unload_game
  \/ UnloadGameReturn
  \/ libretro_run_frame
  \/ RunReturn
  \/ libretro_reset
  \/ ResetReturn
  \/ libretro_get_save_state_size
  \/ \E size \in SerializeSizes : GetSaveStateSizeReturn(size)
  \/ \E size \in SerializeSizes : libretro_save_state(size)
  \/ \E result \in BOOLEAN : SaveStateReturn(result)
  \/ \E size \in SerializeSizes : libretro_load_state(size)
  \/ \E result \in BOOLEAN : LoadStateReturn(result)
  \/ \E path \in SavePaths : libretro_save_state_to_file(path)
  \/ SaveStateToFileReturn
  \/ \E path \in SavePaths : libretro_load_state_from_file(path)
  \/ LoadStateFromFileReturn
  \/ libretro_get_sram
  \/ \E address \in {NULL, HeapAddr} : GetSramReturn(address)
  \/ libretro_get_sram_size
  \/ \E size \in SerializeSizes : GetSramSizeReturn(size)
  \/ libretro_save_sram(1)
  \/ \E address \in {NULL, HeapAddr}, size \in SerializeSizes :
       SaveSramReturn(address, size, 0)
  \/ libretro_load_sram(1)
  \/ \E address \in {NULL, HeapAddr}, size \in SerializeSizes :
       LoadSramReturn(address, size)
  \/ libretro_get_system_av_info
  \/ \E base_width \in 1 .. MaxWidth : GetSystemAvInfoReturn(base_width)

SpecCalls == Init /\ [][NextCalls]_vars

\* ------------------------------------------------------------ lifecycle view
\* The lifecycle state the host is in, and was in when the latest host call
\* was made: Unloaded holds no module handle, GameLoaded has the game flag
\* set on a held handle.
Unloaded == ~libretro_is_loaded
CoreLoaded == libretro_is_loaded /\ ~libretro_is_game_loaded
GameLoaded == libretro_is_loaded /\ libretro_is_game_loaded
PreUnloaded == pre.core_handle = NULL
PreCoreLoaded == pre.core_handle # NULL /\ ~pre.game_loaded
PreGameLoaded == pre.core_handle # NULL /\ pre.game_loaded

\* How often the latest host call invoked entry point s.
Count(s) == Cardinality({i \in DOMAIN calls : calls[i][1] = s})

\* Every invocation of s by the latest host call precedes every one of t.
Precedes(s, t) ==
  \A i, j \in DOMAIN calls : calls[i][1] = s /\ calls[j][1] = t => i < j

\* The callbacks libretro_load_core registers besides the environment one.
RemainingCallbacks ==
  { "set_video_refresh", "set_audio_sample", "set_audio_sample_batch",
    "set_input_poll", "set_input_state" }

\* ------------------------------------------------------------------ claims
\* C1: in every reachable state, the game-loaded flag being true implies
\* that a module handle is held: libretro_is_game_loaded() implies
\* libretro_is_loaded().
C1_GameLoadedImpliesCoreLoaded ==
  libretro_is_game_loaded => libretro_is_loaded

\* C2: load_game called in Unloaded or in GameLoaded returns false, does not
\* invoke the module's load-content entry and leaves the lifecycle state
\* unchanged.
C2_LoadGameOnlyInCoreLoaded ==
  (op = "load_game" /\ pc = "host" /\ (PreUnloaded \/ PreGameLoaded)) =>
     /\ ~ret
     /\ Count("load_game") = 0
     /\ core_handle = pre.core_handle
     /\ game_loaded = pre.game_loaded

\* C3: unload_game called in GameLoaded moves the host to CoreLoaded whether
\* or not the module exports unload-content, which is invoked exactly once
\* when bound and not at all otherwise.
C3_UnloadGameReachesCoreLoaded ==
  (op = "unload_game" /\ pc = "host" /\ PreGameLoaded) =>
     /\ CoreLoaded
     /\ Count("unload_game") = IF core_sym["unload_game"] # NULL THEN 1 ELSE 0

\* C4: whenever the framebuffer is non-null, its allocated byte length is at
\* least the reported height times the reported pitch.
C4_FramebufferCoversGeometry ==
  framebuffer # NULL => framebuffer_size >= video_height * video_pitch

\* C5: the stored audio frame count never exceeds the capacity of 8192
\* frames.
C5_AudioCountWithinCapacity == audio_frames <= MAX_AUDIO_FRAMES

\* C5 witness: a batch callback was cut short because the buffer filled up.
C5_Witness ==
  /\ audio_frames = MAX_AUDIO_FRAMES
  /\ last_cb.name = "batch"
  /\ last_cb.ret > 0
  /\ last_cb.ret < last_cb.frames

\* C6: load_core of a module lacking a mandatory entry point returns false,
\* never calls that module's initialize, and leaves the host Unloaded with
\* no module handle, no audio buffer and no framebuffer.
C6_MissingEntryPointsLoadFails ==
  ( /\ op = "load_core"
    /\ pc = "host"
    /\ arg \in Modules
    /\ ~(Required \subseteq ModuleExports[arg]) ) =>
     /\ ~ret
     /\ Count("init") = 0
     /\ Unloaded
     /\ core_handle = NULL
     /\ audio_buffer = NULL
     /\ framebuffer = NULL

\* C6 witness: such a load was attempted while another core was loaded with
\* a game and a framebuffer had been produced.
C6_Witness ==
  /\ op = "load_core"
  /\ pc = "host"
  /\ arg \in Modules
  /\ ~(Required \subseteq ModuleExports[arg])
  /\ PreGameLoaded
  /\ video_pitch > 0
  /\ Count("dlclose") = 2

\* C7: a successful load_core registers the environment callback before
\* initialize, calls initialize exactly once, and registers each of the five
\* remaining callbacks only after initialize; each registration happens once
\* when the module exports its entry point.
C7_LoadCoreCallOrder ==
  (op = "load_core" /\ pc = "host" /\ ret) =>
     /\ Count("init") = 1
     /\ \A s \in RemainingCallbacks \cup {"set_environment"} :
          Count(s) = IF core_sym[s] # NULL THEN 1 ELSE 0
     /\ Precedes("set_environment", "init")
     /\ \A s \in RemainingCallbacks : Precedes("init", s)
     /\ \A i \in DOMAIN calls :
          calls[i][1] \in RemainingCallbacks \cup {"set_environment", "init"}
             => calls[i][2] = core_handle

\* C7 witness: a load of a core exporting all six registration entries
\* succeeded.
C7_Witness ==
  /\ op = "load_core"
  /\ pc = "host"
  /\ ret
  /\ Count("set_environment") = 1
  /\ \A s \in RemainingCallbacks : Count(s) = 1

\* The cached SystemInfo strings are the ones of the loaded module.
SystemInfoFromModule ==
  /\ libretro_get_name = LibraryName(core_handle)
  /\ libretro_get_version = LibraryVersion(core_handle)
  /\ libretro_get_extensions = ValidExtensions(core_handle)

\* The cached SystemInfo strings all read as the empty string.
SystemInfoEmpty ==
  /\ libretro_get_name = << >>
  /\ libretro_get_version = << >>
  /\ libretro_get_extensions = << >>

\* C8 as stated: after every successful load_core, is_loaded() is true and
\* the cached SystemInfo fields are populated from the module, for every
\* module that passes the mandatory entry-point check.
C8_Original ==
  (op = "load_core" /\ pc = "host" /\ ret) => (libretro_is_loaded /\ SystemInfoFromModule)

\* C8 amended: after every successful load_core, is_loaded() is true; the
\* cached SystemInfo fields are populated from the module when it exports
\* get-system-info and read as empty strings when it omits that entry point.
C8_SystemInfoCachedWhenExported ==
  (op = "load_core" /\ pc = "host" /\ ret) =>
     /\ libretro_is_loaded
     /\ IF "get_system_info" \in ModuleExports[core_handle]
        THEN SystemInfoFromModule
        ELSE SystemInfoEmpty

\* C8 witness: a core was loaded over another loaded core and the cache
\* holds the new core's strings.
C8_Witness ==
  /\ op = "load_core"
  /\ pc = "host"
  /\ ret
  /\ pre.core_handle # NULL
  /\ pre.core_handle # core_handle
  /\ SystemInfoFromModule

\* The joypad device was assigned to port 0 and then to port 1 of the loaded
\* module, and nothing else was assigned.
JoypadAssigned ==
  /\ Count("set_controller_port_device") = 2
  /\ \E i, j \in DOMAIN calls :
       /\ i < j
       /\ calls[i] = <<"set_controller_port_device", core_handle, 0, RETRO_DEVICE_JOYPAD>>
       /\ calls[j] = <<"set_controller_port_device", core_handle, 1, RETRO_DEVICE_JOYPAD>>

\* C9 as stated: load_game called in CoreLoaded returns the module's verdict;
\* on acceptance the host becomes GameLoaded and the joypad device is
\* assigned to ports 0 and 1; on rejection it stays CoreLoaded, returns false
\* and assigns no controller device.
C9_Original ==
  (op = "load_game" /\ pc = "host" /\ PreCoreLoaded) =>
     /\ Count("load_game") = 1
     /\ ret = mod_ret
     /\ mod_ret => (GameLoaded /\ JoypadAssigned)
     /\ ~mod_ret => (CoreLoaded /\ Count("set_controller_port_device") = 0)

\* C9 amended: as stated, except that on acceptance the joypad device is
\* assigned to ports 0 and 1 when the module exports
\* set-controller-port-device, and no device is assigned when it does not.
C9_LoadGameFollowsVerdict ==
  (op = "load_game" /\ pc = "host" /\ PreCoreLoaded) =>
     /\ Count("load_game") = 1
     /\ ret = mod_ret
     /\ mod_ret =>
          /\ GameLoaded
          /\ IF "set_controller_port_device" \in ModuleExports[core_handle]
             THEN JoypadAssigned
             ELSE Count("set_controller_port_device") = 0
     /\ ~mod_ret => (CoreLoaded /\ Count("set_controller_port_device") = 0)

\* C9 witness: a module accepted content offered in CoreLoaded and the
\* joypad was assigned to both ports.
C9_Witness ==
  /\ op = "load_game"
  /\ pc = "host"
  /\ PreCoreLoaded
  /\ ret
  /\ GameLoaded
  /\ JoypadAssigned

\* C10: outside GameLoaded, get_save_state_size returns 0, save_state and
\* load_state return false, and none of them invokes the module's
\* serialize-size, serialize or deserialize entry.
C10_SaveStateOnlyInGameLoaded ==
  ( /\ op \in {"get_save_state_size", "save_state", "load_state"}
    /\ pc = "host"
    /\ ~PreGameLoaded ) =>
     /\ ret_size = 0
     /\ ~ret
     /\ Count("serialize_size") = 0
     /\ Count("serialize") = 0
     /\ Count("unserialize") = 0

\* C11: run_frame in GameLoaded sets the stored audio frame count to 0
\* before it invokes the module's run entry, so the count after run_frame
\* returns is the number of frames the audio callbacks accepted during that
\* cycle, at most 8192, whatever was left unread from earlier cycles.
C11_CountIsFramesOfThisCycle ==
  (op = "run_frame" /\ PreGameLoaded) =>
     /\ Count("run") = 1
     /\ audio_frames = cycle_frames
     /\ audio_frames <= MAX_AUDIO_FRAMES
     /\ (cb_count = 0 => audio_frames = 0)

\* C11 witness: run_frame was called with frames left unread and returned
\* with the frames of two callbacks of this cycle stored.
C11_Witness ==
  /\ op = "run_frame"
  /\ PreGameLoaded
  /\ pc = "host"
  /\ pre.unread
  /\ cb_count = 2
  /\ audio_frames = 101

\* C12: run_frame and reset called outside GameLoaded invoke neither the
\* module's run entry nor its reset entry and leave the audio frame count,
\* the framebuffer, the geometry and the lifecycle state unchanged; reset
\* called in GameLoaded changes no host state: neither its call of the
\* module's reset entry nor its return from it writes a static.
C12_RunAndResetGated ==
  [][ /\ (pc = "host" /\ op' \in {"run_frame", "reset"} /\ ~GameLoaded) =>
           (calls' = << >> /\ pc' = "host" /\ UNCHANGED hostVars)
      /\ (op' = "reset" /\ (pc = "host" \/ pc' = "host")) =>
           UNCHANGED hostVars ]_vars

\* C12 witness: run_frame was called with no game loaded while frames and a
\* framebuffer of an earlier game were still held.
C12_Witness ==
  /\ op = "run_frame"
  /\ pc = "host"
  /\ PreCoreLoaded
  /\ audio_frames > 0
  /\ framebuffer # NULL

\* The smaller of two numbers.
Min(a, b) == IF a < b THEN a ELSE b

\* The step is a call of the audio or video callback named name.
CallbackStep(name) == cb_count' = cb_count + 1 /\ last_cb'.name = name

\* C13: a batch audio callback for n frames when the stored count is c and
\* the audio buffer is allocated returns min(n, 8192 - c), increases the
\* stored count by exactly the returned value and leaves the frames stored
\* before the call unchanged.
C13_BatchAcceptsWhatFits ==
  [][ (CallbackStep("batch") /\ audio_buffer # NULL) =>
        /\ last_cb'.ret = Min(last_cb'.frames, MAX_AUDIO_FRAMES - audio_frames)
        /\ audio_frames' = audio_frames + last_cb'.ret
        /\ RunsLen(audio_data') = audio_frames'
        /\ TakeRuns(audio_data', audio_frames) = audio_data
        /\ DropRuns(audio_data', audio_frames) =
             IF last_cb'.ret = 0 THEN << >>
             ELSE << << <<last_cb'.data, last_cb'.data>>, last_cb'.ret >> >> ]_vars

\* C13 witness: 100 frames were offered with room for 50 after frames of
\* another value, and 50 were stored behind them.
C13_Witness ==
  /\ last_cb = [name |-> "batch", frames |-> 100, ret |-> 50, data |-> 1]
  /\ audio_frames = MAX_AUDIO_FRAMES
  /\ audio_data = << << <<0, 0>>, 8142 >>, << <<1, 1>>, 50 >> >>

\* C14: a single-sample audio callback appends exactly one stereo pair when
\* the stored count is below 8192 and otherwise changes nothing, so n
\* single-sample calls within one cycle leave min(n, 8192) frames stored.
C14_SamplesSaturate ==
  [][ CallbackStep("sample") =>
        /\ IF audio_frames < MAX_AUDIO_FRAMES
           THEN /\ audio_frames' = audio_frames + 1
                /\ TakeRuns(audio_data', audio_frames) = audio_data
                /\ RunsLen(DropRuns(audio_data', audio_frames)) = 1
           ELSE UNCHANGED << audio_frames, audio_data >>
        /\ audio_frames' = Min(cb_count', MAX_AUDIO_FRAMES) ]_vars

\* C14 witness: 8200 single-sample calls were made in one cycle and 8192
\* frames are stored.
C14_Witness ==
  /\ cb_count = 8200
  /\ last_cb = [name |-> "sample", frames |-> 1, ret |-> 0, data |-> 0]
  /\ audio_frames = MAX_AUDIO_FRAMES
  /\ audio_data = << << <<0, 0>>, 8192 >> >>

\* C15: a video callback with non-null data whose height*pitch exceeds the
\* framebuffer capacity makes the capacity exactly height*pitch and the
\* framebuffer content the supplied bytes; one whose height*pitch does not
\* exceed the capacity leaves the capacity unchanged and stores the bytes at
\* the start of the framebuffer; no call other than load_core, unload_core
\* and deinit decreases the capacity.
C15_FramebufferGrowsToFrame ==
  [][ /\ (CallbackStep("video") /\ last_cb'.data # NULL) =>
           LET required_size == video_height' * video_pitch'
               frame == IF required_size = 0 THEN << >>
                        ELSE << <<last_cb'.data, required_size>> >>
           IN IF required_size > framebuffer_size
              THEN /\ framebuffer_size' = required_size
                   /\ framebuffer' # NULL
                   /\ framebuffer_data' = frame
              ELSE /\ framebuffer_size' = framebuffer_size
                   /\ framebuffer' = framebuffer
                   /\ RunsLen(framebuffer_data') = framebuffer_size
                   /\ framebuffer # NULL =>
                        /\ TakeRuns(framebuffer_data', required_size) = frame
                        /\ DropRuns(framebuffer_data', required_size) =
                             DropRuns(framebuffer_data, required_size)
      /\ op' \notin {"load_core", "unload_core", "deinit"} =>
           framebuffer_size' >= framebuffer_size ]_vars

\* C15 witness: a frame of 2 bytes of value 2 was stored in a framebuffer of
\* 4 bytes that held a frame of value 1.
C15_Witness ==
  /\ last_cb.name = "video"
  /\ last_cb.data = 2
  /\ video_height * video_pitch = 2
  /\ framebuffer_size = 4
  /\ framebuffer_data = << <<2, 2>>, <<1, 2>> >>

\* C16: the input query returns 0 for every port >= 4, every button id >= 16
\* and every device other than the joypad, whatever was written before (and
\* the written cell otherwise); a set_button or set_input call with
\* port >= 4 or a button outside 0..15, negative ones included, leaves every
\* cell of the input matrix unchanged.
C16_InputBounds ==
  [][ /\ CallbackStep("input_state") =>
           last_cb'.ret =
             IF \/ args'.port >= MAX_PORTS
                \/ args'.button >= MAX_BUTTONS
                \/ args'.device # RETRO_DEVICE_JOYPAD
             THEN 0
             ELSE IF input_state[args'.port][args'.button] THEN 1 ELSE 0
      /\ ( /\ pc = "host"
           /\ op' \in {"set_button", "set_input"}
           /\ \/ args'.port >= MAX_PORTS
              \/ args'.button >= MAX_BUTTONS
              \/ args'.button < 0 ) =>
           input_state' = input_state ]_vars

\* C16 witness: with the four corner cells pressed, a set_input of the
\* negative button whose low 16 bits are 15 was ignored.
C16_Witness ==
  /\ op = "set_input"
  /\ args = [port |-> 3, button |-> -65521, pressed |-> FALSE, device |-> 0]
  /\ \A port \in {0, 3}, button \in {0, 15} : input_state[port][button]

\* C17: unload_core called in Unloaded invokes no module entry and changes
\* nothing: the host stays Unloaded with no handle, framebuffer or audio
\* buffer; unload_core called right after unload_core changes nothing either,
\* so two calls in a row give the state one call gives.
C17_UnloadCoreIdempotent ==
  [][ /\ (pc = "host" /\ op' = "unload_core") =>
           /\ Unloaded =>
                /\ calls' = << >>
                /\ pc' = "host"
                /\ UNCHANGED hostVars
                /\ core_handle' = NULL
                /\ framebuffer' = NULL
                /\ audio_buffer' = NULL
           /\ op = "unload_core" =>
                (Unloaded /\ calls' = << >> /\ pc' = "host" /\ UNCHANGED hostVars)
      /\ (op' = "unload_core" /\ pc' = "host") =>
           unload_core(NewCall(Cur')) = NewCall(Cur') ]_vars

\* C17 witness: unload_core was called in Unloaded after a module had been
\* opened and closed again.
C17_Witness ==
  /\ op = "unload_core"
  /\ pc = "host"
  /\ PreUnloaded
  /\ core_sym["deinit"] # NULL
  /\ calls = << >>
  /\ Unloaded

\* C18: unload_core from CoreLoaded or GameLoaded ends in Unloaded with the
\* framebuffer and the audio buffer released and the cached system info
\* cleared, and it calls, in this order: the module's unload-content entry
\* (only when a game is loaded and the entry is bound), its deinitialize
\* entry, and dlclose on the handle.
C18_UnloadCoreTeardownOrder ==
  (op = "unload_core" /\ pc = "host" /\ ~PreUnloaded) =>
     /\ Unloaded
     /\ framebuffer = NULL
     /\ framebuffer_size = 0
     /\ audio_buffer = NULL
     /\ system_info = ZeroSystemInfo
     /\ calls =
          (IF pre.game_loaded /\ core_sym["unload_game"] # NULL
           THEN << <<"unload_game", pre.core_handle, 0, 0>> >> ELSE << >>)
          \o (IF core_sym["deinit"] # NULL
              THEN << <<"deinit", pre.core_handle, 0, 0>> >> ELSE << >>)
          \o << <<"dlclose", pre.core_handle, 0, 0>> >>

\* C18 witness: unload_core tore down a core with a game loaded and a
\* framebuffer allocated, in three calls.
C18_Witness ==
  /\ op = "unload_core"
  /\ pc = "host"
  /\ PreGameLoaded
  /\ Len(calls) = 3
  /\ calls[1][1] = "unload_game"
  /\ calls[2][1] = "deinit"
  /\ calls[3][1] = "dlclose"
  /\ Unloaded
  /\ video_height > 0

\* C19: in GameLoaded with the stub module, save_state_to_file(p) returns
\* true, and a load_state_from_file(p) that follows it, whatever retro_run did
\* to the counter in between, returns true and leaves the module with the
\* counter it had when p was saved.
C19_SaveFileRoundTrip ==
  [][ /\ (op' = "save_state_to_file" /\ PreGameLoaded') =>
           /\ UNCHANGED << hostVars, mod_state >>
           /\ pc' = "host" => (ret' /\ files'[arg'].exists)
      /\ (op' = "load_state_from_file" /\ PreGameLoaded') =>
           /\ UNCHANGED << hostVars, files >>
           /\ (pc' = "host" /\ snapshot[arg'].saved) =>
                (ret' /\ mod_state' = snapshot[arg'].state) ]_vars

\* C19 witness: load_state_from_file returned true and put the counter back
\* to the saved value, from which retro_run had moved it away.
C19_Witness ==
  /\ op = "load_state_from_file"
  /\ pc = "host"
  /\ PreGameLoaded
  /\ ret
  /\ snapshot[arg].saved
  /\ mod_state = snapshot[arg].state
  /\ pre.mod_state # mod_state

\* C20: after every load_core that returned true the host is in CoreLoaded,
\* libretro_is_game_loaded() is false, and run_frame invokes the run entry
\* of the loaded module only after a load_game returned true for that module.
C20_LoadCoreReachesCoreLoaded ==
  /\ (op = "load_core" /\ pc = "host" /\ ret) =>
       (CoreLoaded /\ ~libretro_is_game_loaded)
  /\ (op = "run_frame" /\ Count("run") > 0) => accepted

\* C21: with the stub module, whose save-state size is StubSize,
\* save_state_to_file hands serialize a buffer of exactly that size, and
\* load_state_from_file hands deserialize a buffer of exactly that size and
\* returns false when the length of the file differs from it.
C21_BufferHasModuleSize ==
  /\ op = "save_state_to_file" =>
       \A i \in DOMAIN calls : calls[i][1] = "serialize" => calls[i][3] = StubSize
  /\ op = "load_state_from_file" =>
       /\ \A i \in DOMAIN calls :
            calls[i][1] = "unserialize" => calls[i][3] = StubSize
       /\ (pc = "host" /\ files[arg].len # StubSize) => ~ret

\* C22: no entry point of a module is invoked while no module handle is held.
\* A host function other than load_core that is called in Unloaded invokes
\* nothing; every entry that is invoked lies in the module whose handle is
\* held at that moment: the one held when the function was called, or, in
\* load_core once the old handle is closed, the one dlopen just returned.
C22_NoCallWithoutHandle ==
  /\ (PreUnloaded /\ op # "load_core") => calls = << >>
  /\ \A i \in DOMAIN calls :
       calls[i][1] # "dlclose" =>
          /\ calls[i][2] # NULL
          /\ calls[i][2] =
               IF /\ op = "load_core"
                  /\ \/ PreUnloaded
                     \/ \E j \in 1 .. i - 1 : calls[j][1] = "dlclose"
               THEN arg
               ELSE pre.core_handle

\* C22 witness: get_sram_size was called in Unloaded with the entry-point
\* table of an earlier module still filled in, and invoked nothing.
C22_Witness ==
  /\ op = "get_sram_size"
  /\ PreUnloaded
  /\ core_sym["get_memory_size"] # NULL
  /\ calls = << >>
  /\ ret_size = 0

\* The entries and closes that the step adds to those of the host call.
NewCalls ==
  IF pc = "host" THEN calls'
  ELSE SubSeq(calls', Len(calls) + 1, Len(calls'))

\* The invocations cs pair initialize and deinitialize, when the modules of
\* the set s are initialized before them: initialize is called only when no
\* module is initialized, deinitialize only on an initialized module, and a
\* handle is closed only when its module is not initialized.
RECURSIVE Paired(_, _)
Paired(s, cs) ==
  IF cs = << >> THEN TRUE
  ELSE CASE cs[1][1] = "init" ->
              s = {} /\ Paired({cs[1][2]}, Tail(cs))
         [] cs[1][1] = "deinit" ->
              cs[1][2] \in s /\ Paired(s \ {cs[1][2]}, Tail(cs))
         [] cs[1][1] = "dlclose" ->
              cs[1][2] \notin s /\ Paired(s, Tail(cs))
         [] OTHER -> Paired(s, Tail(cs))

\* C23: over any sequence of host calls, each module whose initialize was
\* called receives deinitialize exactly once, before its handle is closed and
\* before the next module's initialize; deinitialize is never called on a
\* module whose initialize was not called; and the initialized module is the
\* one whose handle is held.
C23_InitDeinitPaired ==
  [][ /\ Paired(live, NewCalls)
      /\ pc' = "host" =>
           live' = IF core_handle' # NULL THEN {core_handle'} ELSE {} ]_vars

\* C23 witness: load_core replaced an initialized module by another one:
\* deinitialize of the old module, its close, then initialize of the new.
C23_Witness ==
  /\ op = "load_core"
  /\ pc = "host"
  /\ ret
  /\ pre.core_handle # NULL
  /\ pre.core_handle # arg
  /\ Count("deinit") = 1
  /\ Count("init") = 1
  /\ Precedes("deinit", "dlclose")
  /\ Precedes("dlclose", "init")
  /\ live = {arg}

\* C24: in every reachable state, whenever get_audio_buffer() returns null,
\* get_audio_frames() returns 0.
C24_AudioAccessorsConsistent ==
  libretro_get_audio_buffer = NULL => libretro_get_audio_frames = 0

====
